---------------------------- MODULE Spec2Model ----------------------------
(***************************************************************************)
(* Praias Fluviais de Penacova: the access-scoping, password-recovery and  *)
(* audit core of app.py, as state machines over the persistent store.      *)
(*                                                                         *)
(* Four specifications share the module:                                   *)
(*   SpecToken    reset tokens: issue, verify, redeem (reset_password)     *)
(*   SpecRecover  forgot_password, its mail thread and show_reset_link     *)
(*   SpecScope    the role-scoped record queries and actor listings        *)
(*   SpecAudit    the audited handlers, log_activity and its notifications *)
(***************************************************************************)
EXTENDS Integers, FiniteSets, Sequences, TLC

\* ------------------------------------------------------------------ bounds
MaxUser == 2
MaxTime == 1
MaxTokens == 1
MaxReq == 2
MaxSess == 1
MaxOcc == 2
MaxServed == 1

\* ------------------------------------------------------- program constants
HIDDEN_USER_ID == 12
expiration_hours == 1

ROLE_NADADOR == "nadador"
ROLE_SUPERVISOR == "supervisor"
ROLE_PRESIDENTE == "presidente"

Roles == {ROLE_NADADOR, ROLE_SUPERVISOR, ROLE_PRESIDENTE}

\* The rows of the user table: a few ordinary ids and the hidden one.
UserIds == (1..MaxUser) \cup {HIDDEN_USER_ID}

\* Python's None.
None == -1

\* The truth value Python gives an optional integer: None and 0 are false.
truthy(x) == x # None /\ x # 0

\* ================================================================ tokens
\* secrets.token_urlsafe(32): every issued secret is new.  BadSecret is a
\* string that was never issued.
Secrets == 1..MaxTokens
BadSecret == MaxTokens + 1
Reqs == 1..MaxReq

VARIABLES
    now,        \* datetime.utcnow(), in hours
    tokens,     \* table password_reset_tokens, keyed by the secret
    password,   \* User.password_hash: the request whose password is in force
    rq          \* the reset_password requests in flight

tokVars == <<now, tokens, password, rq>>

\* ============================================================== recovery
Sess == 1..MaxSess
Links == Secrets

VARIABLES
    smtp,       \* SMTP_SERVER, SMTP_EMAIL and SMTP_PASSWORD are all set
    session,    \* session['reset_link'] of each browser session (the token in it)
    fp,         \* the forgot_password request of each browser session
    thread,     \* the _bg_send thread started for each token
    mailed,     \* how often each token's link was delivered by mail
    shown       \* how often each token's link was rendered by show_reset_link

recVars == <<smtp, session, fp, thread, mailed, shown>>

\* ================================================================= scope
VARIABLES
    role,       \* User.role of every row of the user table
    occs,       \* table occurrence: the owner (user_id) of each stored id
    resp        \* what the last request returned to its caller

scopeVars == <<occs, resp>>

\* ================================================================= audit
VARIABLES
    db,         \* the committed rows of the tables the audited handlers write
    out,        \* the last request served: its inputs and what the user was told
    served,     \* how many requests have been served
    pending     \* a request that has read or committed and not yet finished

auditVars == <<db, out, served, pending>>

vars == <<now, tokens, password, rq, smtp, session, fp, thread, mailed, shown,
          role, occs, resp, db, out, served, pending>>

\* What the actions of each specification leave alone.
tokFrame == <<role, recVars, scopeVars, auditVars>>
recFrame == <<now, password, rq, scopeVars, auditVars>>
scopeFrame == <<tokVars, recVars, auditVars>>

\* A validity check that forgets the used flag.
is_valid_ignoring_used(row) == now < row.expires_at

\* PasswordResetToken.is_valid
is_valid(row) == ~row.used /\ now < row.expires_at

\* A lookup that returns the owner of any stored token.
verify_reset_token_unchecked(token) ==
    IF token \notin DOMAIN tokens THEN None ELSE tokens[token].user_id

\* verify_reset_token: the owner, or None.
verify_reset_token(token) ==
    IF token \notin DOMAIN tokens THEN None
    ELSE IF ~is_valid(tokens[token]) THEN None
    ELSE tokens[token].user_id

\* mark_token_used: the table after it.
mark_token_used(token) ==
    IF token \in DOMAIN tokens
    THEN [tokens EXCEPT ![token].used = TRUE, ![token].used_at = now]
    ELSE tokens

\* generate_reset_token: a new row under a new secret.
generate_reset_token(user, token) ==
    /\ token \notin DOMAIN tokens
    /\ tokens' = [s \in DOMAIN tokens \cup {token} |->
                    IF s = token
                    THEN [user_id |-> user, expires_at |-> now + expiration_hours,
                          used |-> FALSE, used_at |-> None]
                    ELSE tokens[s]]

IdleFp == [pc |-> "idle", token |-> None, response |-> "none"]

IdleReq == [pc |-> "idle", token |-> BadSecret, user |-> None, outcome |-> "none"]

\* The recovery flow issues a token for a registered user.
IssueToken(user, token) ==
    /\ token = Cardinality(DOMAIN tokens) + 1
    /\ token \in Secrets
    /\ generate_reset_token(user, token)
    /\ UNCHANGED <<now, password, rq, tokFrame>>

\* reset_password, up to form.validate_on_submit(): the login check, the
\* token's verification and the form.
reset_password_verify(p, token, authenticated, submitted) ==
    /\ rq[p].pc = "idle"
    /\ \A q \in Reqs : q < p => rq[q].pc # "idle"   \* requests are numbered as they arrive
    /\ LET user == verify_reset_token(token) IN
       rq' = [rq EXCEPT ![p] =
                IF authenticated
                THEN [pc |-> "done", token |-> token, user |-> None, outcome |-> "dashboard"]
                ELSE IF user = None
                THEN [pc |-> "done", token |-> token, user |-> None, outcome |-> "invalid"]
                ELSE IF ~submitted
                THEN [pc |-> "done", token |-> token, user |-> user, outcome |-> "form"]
                ELSE [pc |-> "verified", token |-> token, user |-> user, outcome |-> "none"]]
    /\ UNCHANGED <<now, tokens, password, tokFrame>>

\* reset_password, the try block: set_password, mark_token_used, commit.
reset_password_commit(p, ok) ==
    /\ rq[p].pc = "verified"
    /\ IF ok
       THEN /\ password' = [password EXCEPT ![rq[p].user] = p]
            /\ tokens' = mark_token_used(rq[p].token)
            /\ rq' = [rq EXCEPT ![p].pc = "done", ![p].outcome = "success"]
       ELSE /\ rq' = [rq EXCEPT ![p].pc = "done", ![p].outcome = "error"]
            /\ UNCHANGED <<tokens, password>>
    /\ UNCHANGED <<now, tokFrame>>

\* The wall clock.
Tick ==
    /\ now < MaxTime
    /\ now' = now + 1
    /\ UNCHANGED <<tokens, password, rq, tokFrame>>

\* The three accounts app.py creates at start-up (ensure_user), in its order;
\* the other rows are swimmers.
SeedRoles ==
    [u \in UserIds |-> IF u = 1 THEN ROLE_PRESIDENTE
                       ELSE IF u = 2 THEN ROLE_SUPERVISOR
                       ELSE ROLE_NADADOR]

InitRecoverIdle ==
    /\ smtp = FALSE
    /\ session = [s \in Sess |-> None]
    /\ fp = [s \in Sess |-> IdleFp]
    /\ thread = [t \in Links |-> "none"]
    /\ mailed = [t \in Links |-> 0]
    /\ shown = [t \in Links |-> 0]

InitTokenIdle ==
    /\ now = 0
    /\ tokens = <<>>
    /\ password = [u \in UserIds |-> None]
    /\ rq = [p \in Reqs |-> IdleReq]

NoResp ==
    [route |-> "none", actor |-> None, user_id |-> None, owner |-> None,
     status |-> "none", occs |-> {}, all_users |-> {}]

InitScopeIdle ==
    /\ occs = <<>>
    /\ resp = NoResp

\* No fault: every write of the request goes through.
NoFault == [at |-> "none", user_id |-> None]

\* db.create_all() on an empty database, then the accounts: every account is
\* active and holds its first password.
EmptyDb ==
    [occurrences |-> <<>>,
     is_active |-> [u \in UserIds |-> TRUE],
     password_hash |-> [u \in UserIds |-> 0],
     notifications |-> <<>>,
     activity_log |-> <<>>]

NoOut ==
    [route |-> "none", actor |-> None, target |-> None, value |-> None,
     fault |-> NoFault, status |-> "none", activities_before |-> 0,
     notifications_before |-> 0]

\* No request is under way.
NoPending ==
    [pc |-> "idle", route |-> "none", actor |-> None, target |-> None,
     value |-> None]

InitAuditIdle ==
    /\ db = EmptyDb
    /\ out = NoOut
    /\ served = 0
    /\ pending = NoPending

InitToken ==
    /\ InitAuditIdle
    /\ InitTokenIdle
    /\ role = SeedRoles
    /\ InitRecoverIdle
    /\ InitScopeIdle

NextToken ==
    \/ \E u \in UserIds, t \in Secrets : IssueToken(u, t)
    \/ \E p \in Reqs, t \in Secrets \cup {BadSecret}, a \in BOOLEAN, s \in BOOLEAN :
          reset_password_verify(p, t, a, s)
    \/ \E p \in Reqs, ok \in BOOLEAN : reset_password_commit(p, ok)
    \/ Tick

SpecToken == InitToken /\ [][NextToken]_vars

\* ------------------------------------------------------- claims, SpecToken
\* Request p passes through verify_reset_token in this step.
Verifies(p) == rq[p].pc = "idle" /\ rq'[p].pc # "idle" /\ rq'[p].outcome # "dashboard"

Redeemed(t) == {p \in Reqs : rq[p].token = t /\ rq[p].outcome = "success"}

\* C1: of the reset_password requests interleaved on one valid token, at most
\* one succeeds in changing the password and flipping used.
C1_OneRedemption ==
    \A t \in DOMAIN tokens : Cardinality(Redeemed(t)) <= 1

\* C2: once a token is used it stays used, and every verification of it from
\* then on returns no user and ends in the invalid-token outcome.
C2_SingleUse ==
    [][\A t \in DOMAIN tokens : tokens[t].used =>
          /\ tokens'[t].used
          /\ \A p \in Reqs : (Verifies(p) /\ rq'[p].token = t) =>
                /\ rq'[p].pc = "done"
                /\ rq'[p].user = None
                /\ rq'[p].outcome = "invalid"]_vars

\* A token redeemed by one request and refused, still inside its hour, to a
\* later one.
C2_Witness ==
    \E t \in DOMAIN tokens : \E p, q \in Reqs :
        /\ tokens[t].used /\ now < tokens[t].expires_at
        /\ rq[p].token = t /\ rq[p].outcome = "success"
        /\ rq[q].token = t /\ rq[q].outcome = "invalid"

\* C3: an expired token is never accepted: its verification returns no user,
\* and no redemption takes effect at a moment when now >= expires_at.
C3_Expiry ==
    [][/\ \A p \in Reqs :
             (Verifies(p) /\ rq'[p].token \in DOMAIN tokens
                /\ now >= tokens[rq'[p].token].expires_at) => rq'[p].outcome = "invalid"
       /\ \A t \in DOMAIN tokens :
             (~tokens[t].used /\ tokens'[t].used) => now < tokens[t].expires_at]_vars

\* C4: verification returns the owner exactly for a stored, unused, unexpired
\* token, and the three failures end in one and the same outcome.
C4_VerifyUniform ==
    [][\A p \in Reqs : Verifies(p) =>
          LET t == rq'[p].token
              live == /\ t \in DOMAIN tokens
                      /\ ~tokens[t].used
                      /\ now < tokens[t].expires_at
          IN  /\ live => rq'[p].user = tokens[t].user_id /\ rq'[p].outcome \in {"form", "none"}
              /\ ~live => rq'[p].user = None /\ rq'[p].outcome = "invalid"]_vars

\* Two refusals with different causes, an unknown secret and an expired unused
\* token, that look the same.
C4_Witness ==
    \E p, q \in Reqs : \E t \in DOMAIN tokens :
        /\ rq[p].token = BadSecret /\ rq[p].outcome = "invalid"
        /\ rq[q].token = t /\ rq[q].outcome = "invalid"
        /\ ~tokens[t].used /\ now >= tokens[t].expires_at
        /\ rq[p].user = rq[q].user

\* ============================================================== recovery
\* The token the next generate_reset_token call stores.
NextLink == Cardinality(DOMAIN tokens) + 1

\* Where forgot_password sends the browser at its end (lines 1427-1435): to
\* show_reset_link whenever the session holds a link.
fp_redirect(sessionLink) ==
    IF sessionLink # None THEN "show_reset_link" ELSE "login"

\* forgot_password up to thread.start(): the lookup of the account, the new
\* token, and the choice between mailing the link and showing it.
\* user is the row with the submitted email (None: no such account);
\* launch_ok is false when the try block of lines 1381-1421 raises.
forgot_password(s, authenticated, valid_form, user, launch_ok) ==
    /\ fp[s].pc \in {"idle", "done"}
    /\ \/ /\ authenticated
          /\ fp' = [fp EXCEPT ![s] = [pc |-> "done", token |-> None, response |-> "dashboard"]]
          /\ UNCHANGED <<tokens, session, thread>>
       \/ /\ ~authenticated /\ ~valid_form
          /\ fp' = [fp EXCEPT ![s] = [pc |-> "done", token |-> None, response |-> "form"]]
          /\ UNCHANGED <<tokens, session, thread>>
       \/ /\ ~authenticated /\ valid_form /\ user = None
          /\ fp' = [fp EXCEPT ![s] =
                      [pc |-> "done", token |-> None, response |-> fp_redirect(session[s])]]
          /\ UNCHANGED <<tokens, session, thread>>
       \/ /\ ~authenticated /\ valid_form /\ user # None
          /\ NextLink \in Links
          /\ generate_reset_token(user, NextLink)
          /\ IF smtp /\ launch_ok
             THEN /\ thread' = [thread EXCEPT ![NextLink] = "running"]
                  /\ fp' = [fp EXCEPT ![s] =
                              [pc |-> "joining", token |-> NextLink, response |-> "none"]]
                  /\ UNCHANGED session
             ELSE /\ session' = [session EXCEPT ![s] = NextLink]
                  /\ fp' = [fp EXCEPT ![s] =
                              [pc |-> "done", token |-> NextLink,
                               response |-> fp_redirect(NextLink)]]
                  /\ UNCHANGED thread
    /\ UNCHANGED <<smtp, mailed, shown, role, recFrame>>

\* _bg_send: send_reset_password_email returns ok, or raises (ok false).
bg_send(t, ok) ==
    /\ thread[t] = "running"
    /\ thread' = [thread EXCEPT ![t] = IF ok THEN "sent" ELSE "failed"]
    /\ mailed' = [mailed EXCEPT ![t] = IF ok THEN @ + 1 ELSE @]
    /\ UNCHANGED <<tokens, smtp, session, fp, shown, role, recFrame>>

\* email_sent['status'] when thread.join(timeout=2) returns, which it does
\* whether or not the thread has finished.
email_sent(t) == thread[t] = "sent"

\* forgot_password from thread.join(timeout=2) on.
forgot_password_join(s) ==
    /\ fp[s].pc = "joining"
    /\ LET t == fp[s].token
           link == IF ~email_sent(t) THEN t ELSE session[s]
       IN  /\ session' = [session EXCEPT ![s] = link]
           /\ fp' = [fp EXCEPT ![s] =
                       [pc |-> "done", token |-> t, response |-> fp_redirect(link)]]
    /\ UNCHANGED <<tokens, smtp, thread, mailed, shown, role, recFrame>>

\* show_reset_link: renders the session's link and forgets it.  Without a
\* link it redirects to login and changes nothing.
show_reset_link(s) ==
    /\ session[s] # None
    /\ shown' = [shown EXCEPT ![session[s]] = @ + 1]
    /\ session' = [session EXCEPT ![s] = None]
    /\ UNCHANGED <<tokens, smtp, fp, thread, mailed, role, recFrame>>

\* admin_test_email, POST: a token for the caller and a synchronous send.
\* A swimmer is turned away before anything is stored.
admin_test_email(actor, sent) ==
    /\ role[actor] \in {ROLE_PRESIDENTE, ROLE_SUPERVISOR}
    /\ NextLink \in Links
    /\ generate_reset_token(actor, NextLink)
    /\ mailed' = [mailed EXCEPT ![NextLink] = IF sent THEN @ + 1 ELSE @]
    /\ UNCHANGED <<smtp, session, fp, thread, shown, role, recFrame>>

InitRecover ==
    /\ InitAuditIdle
    /\ InitTokenIdle
    /\ role = SeedRoles
    /\ InitScopeIdle
    /\ smtp \in BOOLEAN
    /\ session = [s \in Sess |-> None]
    /\ fp = [s \in Sess |-> IdleFp]
    /\ thread = [t \in Links |-> "none"]
    /\ mailed = [t \in Links |-> 0]
    /\ shown = [t \in Links |-> 0]

NextRecover ==
    \/ \E s \in Sess, a \in BOOLEAN, v \in BOOLEAN, u \in UserIds \cup {None}, l \in BOOLEAN :
          forgot_password(s, a, v, u, l)
    \/ \E t \in Links, ok \in BOOLEAN : bg_send(t, ok)
    \/ \E s \in Sess : forgot_password_join(s)
    \/ \E s \in Sess : show_reset_link(s)
    \/ \E u \in UserIds, ok \in BOOLEAN : admin_test_email(u, ok)

SpecRecover == InitRecover /\ [][NextRecover]_vars

\* ----------------------------------------------------- claims, SpecRecover
\* C5: the link of every issued token reaches an end user at most once, by
\* mail or on the screen.
C5_ExposedOnce ==
    \A t \in Links : mailed[t] + shown[t] <= 1

\* C28: forgot_password answers a registered email as it answers an unknown
\* one: the redirect a finished request returns is the one the same request
\* with an unknown email returns from the same session.
C28_NoEmailDisclosure ==
    [][\A s \in Sess :
          (/\ fp'[s] # fp[s]
           /\ fp'[s].pc = "done"
           /\ fp'[s].response \notin {"dashboard", "form"}) =>
              fp'[s].response = fp_redirect(session[s])]_vars

\* ================================================================= scope
\* Every handler below runs behind @login_required: actor is current_user.
\* resp.occs holds the records the role filter admits; the optional date,
\* zone, type and search filters of the listing and the exports are further
\* query.filter calls that can only drop rows from it.  The audit rows these
\* handlers write through log_activity are left to the audit specification.
OccIds == 1..MaxOcc

\* An id with no row in the user table.
NoSuchUser == HIDDEN_USER_ID + 1

\* request.args.get('user_id', type=int): an id, 0, or None when absent.
UserIdArgs == UserIds \cup {NoSuchUser, 0, None}

\* Occurrence.query.filter(Occurrence.user_id.in_(owners))
OccsOf(owners) == {o \in DOMAIN occs : occs[o] \in owners}

\* User.query.filter(User.role == ROLE_NADADOR, User.id != HIDDEN_USER_ID)
nadador_ids == {u \in UserIds : role[u] = ROLE_NADADOR /\ u # HIDDEN_USER_ID}

\* User.query.filter(User.id != current_user.id[, User.id != HIDDEN_USER_ID])
other_users(actor) ==
    IF actor = HIDDEN_USER_ID
    THEN {u \in UserIds : u # actor}
    ELSE {u \in UserIds : u # actor /\ u # HIDDEN_USER_ID}

Denied(route, actor, user_id) ==
    [route |-> route, actor |-> actor, user_id |-> user_id, owner |-> None,
     status |-> "denied", occs |-> {}, all_users |-> {}]

Listing(route, actor, user_id, rows, users) ==
    [route |-> route, actor |-> actor, user_id |-> user_id, owner |-> None,
     status |-> "ok", occs |-> rows, all_users |-> users]

\* A role filter whose default supervisor scope leaves the supervisor out.
role_filter_without_self(actor, user_id) ==
    IF role[actor] = ROLE_NADADOR THEN [ok |-> TRUE, rows |-> OccsOf({actor})]
    ELSE IF role[actor] = ROLE_SUPERVISOR
    THEN IF truthy(user_id)
         THEN IF user_id \notin UserIds \/ role[user_id] # ROLE_NADADOR
              THEN [ok |-> FALSE, rows |-> {}]
              ELSE [ok |-> TRUE, rows |-> OccsOf({user_id})]
         ELSE [ok |-> TRUE, rows |-> OccsOf(nadador_ids)]
    ELSE [ok |-> TRUE, rows |-> IF truthy(user_id) THEN OccsOf({user_id}) ELSE DOMAIN occs]

\* The role filter shared, line for line, by ocorrencias, export_csv and
\* export_pdf: whether the request goes on, and the rows the query keeps.
role_filter(actor, user_id) ==
    IF role[actor] = ROLE_NADADOR THEN [ok |-> TRUE, rows |-> OccsOf({actor})]
    ELSE IF role[actor] = ROLE_SUPERVISOR
    THEN IF truthy(user_id)
         THEN IF user_id \notin UserIds \/ role[user_id] # ROLE_NADADOR
              THEN [ok |-> FALSE, rows |-> {}]
              ELSE [ok |-> TRUE, rows |-> OccsOf({user_id})]
         ELSE [ok |-> TRUE, rows |-> OccsOf(nadador_ids \cup {actor})]
    ELSE [ok |-> TRUE, rows |-> IF truthy(user_id) THEN OccsOf({user_id}) ELSE DOMAIN occs]

\* all_users of ocorrencias: the candidates of its user filter.
ocorrencias_all_users(actor) ==
    IF role[actor] = ROLE_NADADOR THEN {}
    ELSE IF role[actor] = ROLE_SUPERVISOR THEN nadador_ids
    ELSE other_users(actor)

ocorrencias_query(actor, user_id) ==
    IF ~role_filter(actor, user_id).ok
    THEN Denied("ocorrencias", actor, user_id)
    ELSE Listing("ocorrencias", actor, user_id, role_filter(actor, user_id).rows,
                 ocorrencias_all_users(actor))

\* A role filter that honours a swimmer's user_id argument.
export_csv_query_by_target(actor, user_id) ==
    IF role[actor] = ROLE_NADADOR /\ user_id \in UserIds
    THEN Listing("export_csv", actor, user_id, OccsOf({user_id}), {})
    ELSE IF ~role_filter(actor, user_id).ok
    THEN Denied("export_csv", actor, user_id)
    ELSE Listing("export_csv", actor, user_id, role_filter(actor, user_id).rows, {})

export_csv_query(actor, user_id) ==
    IF ~role_filter(actor, user_id).ok
    THEN Denied("export_csv", actor, user_id)
    ELSE Listing("export_csv", actor, user_id, role_filter(actor, user_id).rows, {})

\* An export that filters on the user_id argument without looking the target up.
export_pdf_query_unvalidated(actor, user_id) ==
    IF role[actor] # ROLE_NADADOR /\ truthy(user_id)
    THEN Listing("export_pdf", actor, user_id, OccsOf({user_id}), {})
    ELSE Listing("export_pdf", actor, user_id, role_filter(actor, user_id).rows, {})

export_pdf_query(actor, user_id) ==
    IF ~role_filter(actor, user_id).ok
    THEN Denied("export_pdf", actor, user_id)
    ELSE Listing("export_pdf", actor, user_id, role_filter(actor, user_id).rows, {})

\* dashboard_stats counts the rows of its own role filter; it reads no user_id.
dashboard_stats_query(actor) ==
    Listing("dashboard_stats", actor, None,
            IF role[actor] = ROLE_NADADOR THEN OccsOf({actor})
            ELSE IF role[actor] = ROLE_SUPERVISOR THEN OccsOf(nadador_ids \cup {actor})
            ELSE DOMAIN occs,
            {})

\* A users page that lists every other row.
users_query_unfiltered(actor) ==
    IF role[actor] = ROLE_NADADOR THEN Denied("users", actor, None)
    ELSE Listing("users", actor, None, {}, {u \in UserIds : u # actor})

\* users: the users page.
users_query(actor) ==
    IF role[actor] = ROLE_NADADOR THEN Denied("users", actor, None)
    ELSE IF role[actor] = ROLE_SUPERVISOR
    THEN Listing("users", actor, None, {}, nadador_ids)
    ELSE Listing("users", actor, None, {}, other_users(actor))

\* activities: the feed of the target and, for a president, the candidates.
activities_query(actor, user_id) ==
    LET target_user_id == IF truthy(user_id) THEN user_id ELSE actor IN
    IF target_user_id # actor /\ role[actor] # ROLE_PRESIDENTE
    THEN Denied("activities", actor, user_id)
    ELSE Listing("activities", actor, user_id, {},
                 IF role[actor] = ROLE_PRESIDENTE THEN other_users(actor) ELSE {})

\* The permission check of view_occurrence, edit_occurrence and
\* delete_occurrence on the row id.
occurrence_allowed(actor, id) ==
    ~(role[actor] = ROLE_NADADOR /\ occs[id] # actor)

Single(route, actor, id) ==
    [route |-> route, actor |-> actor, user_id |-> None, owner |-> occs[id],
     status |-> IF occurrence_allowed(actor, id) THEN "ok" ELSE "denied",
     occs |-> IF occurrence_allowed(actor, id) THEN {id} ELSE {},
     all_users |-> {}]

\* Requests are served one after the other: a handler starts when the
\* response of the one before it has been sent.
Ready == resp.route = "none"

\* The response leaves for the browser.
respond ==
    /\ resp.route # "none"
    /\ resp' = NoResp
    /\ UNCHANGED <<occs, role, scopeFrame>>

ocorrencias(actor, user_id) ==
    /\ Ready
    /\ resp' = ocorrencias_query(actor, user_id)
    /\ UNCHANGED <<occs, role, scopeFrame>>

export_csv(actor, user_id) ==
    /\ Ready
    /\ resp' = export_csv_query(actor, user_id)
    /\ UNCHANGED <<occs, role, scopeFrame>>

export_pdf(actor, user_id) ==
    /\ Ready
    /\ resp' = export_pdf_query(actor, user_id)
    /\ UNCHANGED <<occs, role, scopeFrame>>

dashboard_stats(actor) ==
    /\ Ready
    /\ resp' = dashboard_stats_query(actor)
    /\ UNCHANGED <<occs, role, scopeFrame>>

users(actor) ==
    /\ Ready
    /\ resp' = users_query(actor)
    /\ UNCHANGED <<occs, role, scopeFrame>>

activities(actor, user_id) ==
    /\ Ready
    /\ resp' = activities_query(actor, user_id)
    /\ UNCHANGED <<occs, role, scopeFrame>>

\* nova_ocorrencia, POST with a valid form: the author is current_user.
nova_ocorrencia(actor) ==
    LET id == IF DOMAIN occs = {} THEN 1
              ELSE (CHOOSE m \in DOMAIN occs : \A o \in DOMAIN occs : o <= m) + 1
    IN  /\ Ready
        /\ id \in OccIds
        /\ occs' = [o \in DOMAIN occs \cup {id} |-> IF o = id THEN actor ELSE occs[o]]
        /\ resp' = [route |-> "nova_ocorrencia", actor |-> actor, user_id |-> None,
                    owner |-> actor, status |-> "ok", occs |-> {id}, all_users |-> {}]
        /\ UNCHANGED <<role, scopeFrame>>

\* get_or_404 turns an unknown id away before any of the three is reached.
view_occurrence(actor, id) ==
    /\ Ready
    /\ id \in DOMAIN occs
    /\ resp' = Single("view_occurrence", actor, id)
    /\ UNCHANGED <<occs, role, scopeFrame>>

\* edit_occurrence rewrites date, zone, type and description, never user_id.
edit_occurrence(actor, id) ==
    /\ Ready
    /\ id \in DOMAIN occs
    /\ resp' = Single("edit_occurrence", actor, id)
    /\ UNCHANGED <<occs, role, scopeFrame>>

delete_occurrence(actor, id) ==
    /\ Ready
    /\ id \in DOMAIN occs
    /\ resp' = Single("delete_occurrence", actor, id)
    /\ occs' = IF occurrence_allowed(actor, id)
               THEN [o \in DOMAIN occs \ {id} |-> occs[o]]
               ELSE occs
    /\ UNCHANGED <<role, scopeFrame>>

\* Roles are whatever new_user and edit_user have stored.
InitScope ==
    /\ InitAuditIdle
    /\ InitTokenIdle
    /\ InitRecoverIdle
    /\ role \in [UserIds -> Roles]
    /\ InitScopeIdle

NextScope ==
    \/ \E a \in UserIds, u \in UserIdArgs : ocorrencias(a, u)
    \/ \E a \in UserIds, u \in UserIdArgs : export_csv(a, u)
    \/ \E a \in UserIds, u \in UserIdArgs : export_pdf(a, u)
    \/ \E a \in UserIds : dashboard_stats(a)
    \/ \E a \in UserIds : users(a)
    \/ \E a \in UserIds, u \in UserIdArgs : activities(a, u)
    \/ \E a \in UserIds : nova_ocorrencia(a)
    \/ \E a \in UserIds, id \in OccIds : view_occurrence(a, id)
    \/ \E a \in UserIds, id \in OccIds : edit_occurrence(a, id)
    \/ \E a \in UserIds, id \in OccIds : delete_occurrence(a, id)
    \/ respond

SpecScope == InitScope /\ [][NextScope]_vars

\* ------------------------------------------------------- claims, SpecScope
RecordQueries == {"ocorrencias", "dashboard_stats", "export_csv", "export_pdf"}
RecordActions == {"view_occurrence", "edit_occurrence", "delete_occurrence"}
ActorListings == {"users", "ocorrencias", "activities"}

\* The response on the wire answers a request of an actor with role r.
By(r) == resp.actor \in UserIds /\ role[resp.actor] = r

\* C6: a swimmer's record queries return exactly the swimmer's own records,
\* and a swimmer views, edits or deletes a record only if it owns it.
C6_SwimmerScope ==
    By(ROLE_NADADOR) =>
        /\ resp.route \in RecordQueries =>
              /\ resp.status = "ok"
              /\ resp.occs = {o \in DOMAIN occs : occs[o] = resp.actor}
        /\ resp.route \in RecordActions =>
              (resp.status = "ok" <=> resp.owner = resp.actor)

\* A swimmer's listing that returns its record while another actor's record
\* is in the table.
C6_Witness ==
    /\ By(ROLE_NADADOR)
    /\ resp.route = "export_csv"
    /\ resp.occs # {}
    /\ \E o \in DOMAIN occs : occs[o] # resp.actor

\* C7: a swimmer's record query that names another actor is refused.
C7_SwimmerTargetDenied ==
    (/\ By(ROLE_NADADOR)
     /\ resp.route \in RecordQueries
     /\ resp.user_id # None
     /\ resp.user_id # resp.actor) => resp.status = "denied"

\* C8: no record of the hidden actor is in what another president obtains.
C8_PresidentHidden ==
    (/\ By(ROLE_PRESIDENTE)
     /\ resp.actor # HIDDEN_USER_ID
     /\ resp.route \in RecordQueries) =>
        \A o \in resp.occs : occs[o] # HIDDEN_USER_ID

\* C9: the hidden actor is in no record scope and no actor listing that a
\* supervisor (other than the hidden actor itself) obtains.
C9_SupervisorHidden ==
    (/\ By(ROLE_SUPERVISOR)
     /\ resp.actor # HIDDEN_USER_ID
     /\ resp.route \in RecordQueries \cup ActorListings) =>
        /\ \A o \in resp.occs : occs[o] # HIDDEN_USER_ID
        /\ HIDDEN_USER_ID \notin resp.all_users

TargetQueries == {"ocorrencias", "export_csv", "export_pdf"}

VisibleOwners(actor) ==
    IF role[actor] = ROLE_NADADOR THEN {actor}
    ELSE IF role[actor] = ROLE_SUPERVISOR
    THEN {u \in UserIds : role[u] = ROLE_NADADOR /\ u # HIDDEN_USER_ID} \cup {actor}
    ELSE IF actor = HIDDEN_USER_ID THEN UserIds
    ELSE UserIds \ {HIDDEN_USER_ID}

\* C13: edit_occurrence and delete_occurrence go through only for a record
\* whose owner the actor may see.
C13_MutationInScope ==
    (/\ resp.route \in {"edit_occurrence", "delete_occurrence"}
     /\ resp.status = "ok") => resp.owner \in VisibleOwners(resp.actor)

\* ================================================================= audit
\* db.session: the committed rows (db) and the rows as the request sees
\* them, pending writes included (work).  A fault is a write that raises:
\* "primary" the handler's own commit, "activity" the INSERT of the
\* ActivityLog row, "notification" the INSERT of user_id's Notification row.
AuditFaults == {"activity", "notification"}

Faults ==
    {[at |-> a, user_id |-> None] : a \in {"none", "primary", "activity"}}
        \cup {[at |-> "notification", user_id |-> u] : u \in UserIds}

\* The faults of a request that writes no Notification row.
PlainFaults == {f \in Faults : f.at # "notification"}

begin(d) == [db |-> d, work |-> d]

\* db.session.commit()
commit(s) == [db |-> s.work, work |-> s.work]

\* db.session.rollback()
rollback(s) == [db |-> s.db, work |-> s.db]

\* The rows of a query, in primary-key order.
RECURSIVE by_id(_)
by_id(S) ==
    IF S = {} THEN <<>>
    ELSE LET m == CHOOSE x \in S : \A y \in S : x <= y
         IN  <<m>> \o by_id(S \ {m})

\* An audience query without the filter on HIDDEN_USER_ID.
supervisors_with_hidden ==
    by_id({u \in UserIds : role[u] \in {ROLE_SUPERVISOR, ROLE_PRESIDENTE}})

\* User.query.filter(User.role.in_(['supervisor', 'presidente']),
\*                   User.id != HIDDEN_USER_ID).all()
supervisors ==
    by_id({u \in UserIds : /\ role[u] \in {ROLE_SUPERVISOR, ROLE_PRESIDENTE}
                           /\ u # HIDDEN_USER_ID})

\* The actions log_activity prepares a notification for.
NotifiedActions ==
    {"login", "create_occurrence", "edit_occurrence", "delete_occurrence",
     "toggle_user_status"}

\* details as log_activity reads it: details.get('occurrence_id') and
\* details.get('user_id').
Details(occurrence_id, user_id) ==
    [occurrence_id |-> occurrence_id, user_id |-> user_id]

Link(to, id) == [to |-> to, id |-> id]

\* A link that always leads to the activity feed.
notif_link_generic(action, details) == Link("activities", None)

\* notif_link
notif_link(action, details) ==
    LET occurrence_link ==
            IF action \in {"create_occurrence", "edit_occurrence"}
               /\ truthy(details.occurrence_id)
            THEN Link("view_occurrence", details.occurrence_id)
            ELSE IF action = "delete_occurrence" THEN Link("ocorrencias", None)
            ELSE Link("activities", None)
    IN  IF action \in {"create_user", "edit_user", "toggle_user_status"}
           /\ truthy(details.user_id)
        THEN Link("view_user", details.user_id)
        ELSE occurrence_link

\* The Notification rows log_activity adds for the audience, one after the
\* other; title stands for the title and message chosen for the action.
notification_rows(audience, action, details) ==
    [i \in 1..Len(audience) |->
        [user_id |-> audience[i], title |-> action, type |-> "info",
         link |-> notif_link(action, details), read |-> FALSE]]

\* The users log_activity notifies.
audience_of(user_id, action, notify_supervisors) ==
    IF action \in NotifiedActions /\ user_id \in UserIds /\ notify_supervisors
    THEN supervisors
    ELSE <<>>

\* log_activity: the ActivityLog row and the Notification rows are added to
\* the caller's session and written by one commit; any exception rolls the
\* session back and is swallowed.
log_activity(s, user_id, action, details, notify_supervisors, fault) ==
    LET audience == audience_of(user_id, action, notify_supervisors)
        activity == [user_id |-> user_id, action |-> action]
        added == [s EXCEPT
                    !.work.activity_log = Append(@, activity),
                    !.work.notifications =
                        @ \o notification_rows(audience, action, details)]
        raised ==
            \/ fault.at = "activity"
            \/ /\ fault.at = "notification"
               /\ \E i \in 1..Len(audience) : audience[i] = fault.user_id
    IN  IF raised THEN rollback(added) ELSE commit(added)

\* What a handler leaves behind: the committed rows and what the user sees.
Done(s, status) == [db |-> s.db, status |-> status]

\* The id the database gives the next occurrence.
next_occurrence_id(d) ==
    IF DOMAIN d.occurrences = {} THEN 1
    ELSE (CHOOSE m \in DOMAIN d.occurrences :
             \A o \in DOMAIN d.occurrences : o <= m) + 1

\* occ.user_id != current_user.id for a nadador: 'Acesso negado'.
occurrence_denied(d, actor, id) ==
    role[actor] = ROLE_NADADOR /\ d.occurrences[id].user_id # actor

\* A nova_ocorrencia that leaves its commit to log_activity.
nova_ocorrencia_run_uncommitted(d, actor, fault) ==
    LET id == next_occurrence_id(d)
        s1 == [begin(d) EXCEPT !.work.occurrences =
                  [o \in DOMAIN @ \cup {id} |->
                      IF o = id THEN [user_id |-> actor, rev |-> 0] ELSE @[o]]]
    IN  IF fault.at = "primary" THEN Done(rollback(s1), "error")
        ELSE Done(log_activity(s1, actor, "create_occurrence",
                               Details(id, None), TRUE, fault), "success")

\* nova_ocorrencia, POST with a valid form.
nova_ocorrencia_run(d, actor, fault) ==
    LET id == next_occurrence_id(d)
        s1 == [begin(d) EXCEPT !.work.occurrences =
                  [o \in DOMAIN @ \cup {id} |->
                      IF o = id THEN [user_id |-> actor, rev |-> 0] ELSE @[o]]]
    IN  IF fault.at = "primary" THEN Done(rollback(s1), "error")
        ELSE Done(log_activity(commit(s1), actor, "create_occurrence",
                               Details(id, None), TRUE, fault), "success")

\* edit_occurrence, POST with a valid form: rev stands for the date, zone,
\* type and description the form replaces.
edit_occurrence_run(d, actor, id, fault) ==
    LET s1 == [begin(d) EXCEPT !.work.occurrences[id].rev = 1 - @]
    IN  IF occurrence_denied(d, actor, id) THEN Done(begin(d), "denied")
        ELSE IF fault.at = "primary" THEN Done(rollback(s1), "error")
        ELSE Done(log_activity(commit(s1), actor, "edit_occurrence",
                               Details(id, None), TRUE, fault), "success")

delete_occurrence_run(d, actor, id, fault) ==
    LET s1 == [begin(d) EXCEPT !.work.occurrences =
                  [o \in DOMAIN @ \ {id} |-> @[o]]]
    IN  IF occurrence_denied(d, actor, id) THEN Done(begin(d), "denied")
        ELSE IF fault.at = "primary" THEN Done(rollback(s1), "error")
        ELSE Done(log_activity(commit(s1), actor, "delete_occurrence",
                               Details(id, None), FALSE, fault), "success")

\* toggle_user_status: reason says whether suspension_reason was filled in.
\* A toggle_user_status without the check on the requester's own account.
toggle_user_status_run_self(d, actor, id, reason, fault) ==
    LET new_status == ~d.is_active[id]
        s1 == [begin(d) EXCEPT !.work.is_active[id] = new_status]
    IN  IF role[actor] = ROLE_NADADOR THEN Done(begin(d), "denied")
        ELSE IF role[actor] = ROLE_SUPERVISOR /\ role[id] # ROLE_NADADOR
        THEN Done(begin(d), "denied")
        ELSE IF ~new_status /\ ~reason THEN Done(begin(d), "invalid")
        ELSE IF fault.at = "primary" THEN Done(rollback(s1), "error")
        ELSE Done(log_activity(commit(s1), actor, "toggle_user_status",
                               Details(None, id), FALSE, fault), "success")

toggle_user_status_run(d, actor, id, reason, fault) ==
    LET new_status == ~d.is_active[id]
        s1 == [begin(d) EXCEPT !.work.is_active[id] = new_status]
    IN  IF role[actor] = ROLE_NADADOR THEN Done(begin(d), "denied")
        ELSE IF role[actor] = ROLE_SUPERVISOR /\ role[id] # ROLE_NADADOR
        THEN Done(begin(d), "denied")
        ELSE IF id = actor THEN Done(begin(d), "denied")
        ELSE IF ~new_status /\ ~reason THEN Done(begin(d), "invalid")
        ELSE IF fault.at = "primary" THEN Done(rollback(s1), "error")
        ELSE Done(log_activity(commit(s1), actor, "toggle_user_status",
                               Details(None, id), FALSE, fault), "success")

\* reset_password, POST with a valid form and a token verified for user.
reset_password_run(d, user, fault) ==
    LET s1 == [begin(d) EXCEPT !.work.password_hash[user] = 1 - @]
    IN  IF fault.at = "primary" THEN Done(rollback(s1), "error")
        ELSE Done(log_activity(commit(s1), user, "password_reset",
                               Details(None, None), FALSE, fault), "success")

\* A mark_notification_read open to every logged-in user.
mark_notification_read_run_any(d, actor, id, fault) ==
    LET s1 == [begin(d) EXCEPT !.work.notifications[id].read = TRUE]
    IN  IF fault.at = "primary" THEN Done(rollback(s1), "error")
        ELSE Done(log_activity(commit(s1), actor, "mark_notification_read",
                               Details(None, None), FALSE, fault), "success")

\* A mark_notification_read that flips the flag.
mark_notification_read_run_flip(d, actor, id, fault) ==
    LET s1 == [begin(d) EXCEPT !.work.notifications[id].read = ~@]
    IN  IF d.notifications[id].user_id # actor THEN Done(begin(d), "denied")
        ELSE IF fault.at = "primary" THEN Done(rollback(s1), "error")
        ELSE Done(log_activity(commit(s1), actor, "mark_notification_read",
                               Details(None, None), FALSE, fault), "success")

mark_notification_read_run(d, actor, id, fault) ==
    LET s1 == [begin(d) EXCEPT !.work.notifications[id].read = TRUE]
    IN  IF d.notifications[id].user_id # actor THEN Done(begin(d), "denied")
        ELSE IF fault.at = "primary" THEN Done(rollback(s1), "error")
        ELSE Done(log_activity(commit(s1), actor, "mark_notification_read",
                               Details(None, None), FALSE, fault), "success")

\* change_password writes its ActivityLog row itself, inside the try block
\* of the password change.
change_password_run(d, actor, current_ok, fault) ==
    LET s1 == [begin(d) EXCEPT !.work.password_hash[actor] = 1 - @]
        s3 == [commit(s1) EXCEPT !.work.activity_log =
                  Append(@, [user_id |-> actor, action |-> "change_password"])]
    IN  IF ~current_ok THEN Done(begin(d), "invalid")
        ELSE IF fault.at = "primary" THEN Done(rollback(s1), "error")
        ELSE IF fault.at = "activity" THEN Done(rollback(s3), "error")
        ELSE Done(commit(s3), "success")

\* login with a valid form.  login_user refuses an account that is not
\* active, and login does not look at what it returns.
login_run(d, user, password_ok, fault) ==
    IF ~password_ok THEN Done(begin(d), "invalid")
    ELSE Done(log_activity(begin(d), user, "login", Details(None, None),
                           FALSE, fault),
              IF d.is_active[user] THEN "success" ELSE "inactive")

\* A fault happens at a write the request makes: none in a request turned
\* away before its first write, and a Notification fault at a row of the
\* audience.
Occurs(fault, result, audience) ==
    /\ result.status \in {"denied", "invalid"} => fault = NoFault
    /\ fault.at = "notification" =>
          \E i \in 1..Len(audience) : audience[i] = fault.user_id

\* A load_user that does not look at is_active.
login_required_any(actor) == actor \in UserIds

\* load_user: the session of a suspended account no longer loads.
login_required(actor) == db.is_active[actor]

\* The run under study takes MaxServed requests.
Open == served < MaxServed

Serve(route, actor, target, value, fault, result) ==
    /\ served' = served + 1
    /\ db' = result.db
    /\ out' = [route |-> route, actor |-> actor, target |-> target,
               value |-> value, fault |-> fault, status |-> result.status,
               activities_before |-> Len(db.activity_log),
               notifications_before |-> Len(db.notifications)]
    /\ UNCHANGED <<pending, role, tokVars, recVars, scopeVars>>

nova_ocorrencia_post(actor, fault) ==
    /\ Open
    /\ login_required(actor)
    /\ next_occurrence_id(db) \in OccIds
    /\ Occurs(fault, nova_ocorrencia_run(db, actor, fault), supervisors)
    /\ Serve("nova_ocorrencia", actor, next_occurrence_id(db), 0, fault,
             nova_ocorrencia_run(db, actor, fault))

edit_occurrence_post(actor, id, fault) ==
    /\ Open
    /\ login_required(actor)
    /\ id \in DOMAIN db.occurrences
    /\ Occurs(fault, edit_occurrence_run(db, actor, id, fault), supervisors)
    /\ Serve("edit_occurrence", actor, id, 1 - db.occurrences[id].rev, fault,
             edit_occurrence_run(db, actor, id, fault))

delete_occurrence_post(actor, id, fault) ==
    /\ Open
    /\ login_required(actor)
    /\ id \in DOMAIN db.occurrences
    /\ Occurs(fault, delete_occurrence_run(db, actor, id, fault), <<>>)
    /\ Serve("delete_occurrence", actor, id, None, fault,
             delete_occurrence_run(db, actor, id, fault))

toggle_user_status(actor, id, reason, fault) ==
    /\ Open
    /\ login_required(actor)
    /\ Occurs(fault, toggle_user_status_run(db, actor, id, reason, fault), <<>>)
    /\ Serve("toggle_user_status", actor, id,
             IF db.is_active[id] THEN 0 ELSE 1, fault,
             toggle_user_status_run(db, actor, id, reason, fault))

reset_password_post(user, fault) ==
    /\ Open
    /\ Occurs(fault, reset_password_run(db, user, fault), <<>>)
    /\ Serve("reset_password", user, user, 1 - db.password_hash[user], fault,
             reset_password_run(db, user, fault))

mark_notification_read(actor, id, fault) ==
    /\ Open
    /\ login_required(actor)
    /\ id \in 1..Len(db.notifications)
    /\ Occurs(fault, mark_notification_read_run(db, actor, id, fault), <<>>)
    /\ Serve("mark_notification_read", actor, id, 1, fault,
             mark_notification_read_run(db, actor, id, fault))

change_password(actor, current_ok, fault) ==
    /\ Open
    /\ login_required(actor)
    /\ Occurs(fault, change_password_run(db, actor, current_ok, fault), <<>>)
    /\ Serve("change_password", actor, actor, 1 - db.password_hash[actor],
             fault, change_password_run(db, actor, current_ok, fault))

login(user, password_ok, fault) ==
    /\ Open
    /\ fault.at # "primary"
    /\ Occurs(fault, login_run(db, user, password_ok, fault), <<>>)
    /\ Serve("login", user, user, None, fault,
             login_run(db, user, password_ok, fault))

\* The ordinary accounts differ only in their ids, so their roles are taken
\* in the order app.py creates its accounts at start-up (ensure_user):
\* presidents, then supervisors, then swimmers.  The hidden account has any
\* role.
RoleOrder(r) ==
    IF r = ROLE_PRESIDENTE THEN 1 ELSE IF r = ROLE_SUPERVISOR THEN 2 ELSE 3

AuditRoles ==
    {f \in [UserIds -> Roles] :
        \A u, v \in 1..MaxUser : u < v => RoleOrder(f[u]) <= RoleOrder(f[v])}

\* The database after the first user has recorded an occurrence.
SeedCreated == nova_ocorrencia_run(EmptyDb, 1, NoFault).db

\* ... and after the first recipient has read the notification about it.
SeedRead ==
    IF SeedCreated.notifications = <<>> THEN SeedCreated
    ELSE mark_notification_read_run(SeedCreated,
             SeedCreated.notifications[1].user_id, 1, NoFault).db

\* ... and after the first user has then suspended the second, where its
\* role allows that.
SeedSuspended == toggle_user_status_run(SeedRead, 1, 2, TRUE, NoFault).db

\* The database when the requests under study arrive: new, or one of the
\* above.
InitAudit ==
    /\ InitTokenIdle
    /\ InitRecoverIdle
    /\ InitScopeIdle
    /\ role \in AuditRoles
    /\ db \in {EmptyDb, SeedSuspended}
    /\ out = NoOut
    /\ served = 0
    /\ pending = NoPending

NotifIds == 1..((MaxServed + 1) * MaxUser)

NextAudit ==
    \/ \E a \in UserIds, f \in Faults : nova_ocorrencia_post(a, f)
    \/ \E a \in UserIds, id \in OccIds, f \in Faults : edit_occurrence_post(a, id, f)
    \/ \E a \in UserIds, id \in OccIds, f \in PlainFaults :
          delete_occurrence_post(a, id, f)
    \/ \E a \in UserIds, id \in UserIds, r \in BOOLEAN, f \in PlainFaults :
          toggle_user_status(a, id, r, f)
    \/ \E u \in UserIds, f \in PlainFaults : reset_password_post(u, f)
    \/ \E a \in UserIds, id \in NotifIds, f \in PlainFaults :
          mark_notification_read(a, id, f)
    \/ \E a \in UserIds, ok \in BOOLEAN, f \in PlainFaults : change_password(a, ok, f)
    \/ \E u \in UserIds, ok \in BOOLEAN, f \in PlainFaults : login(u, ok, f)

SpecAudit == InitAudit /\ [][NextAudit]_vars

\* ------------------------------------------------------- claims, SpecAudit
\* The rows the last request added to activity_log and to notifications.
NewActivities ==
    SubSeq(db.activity_log, out.activities_before + 1, Len(db.activity_log))

NewNotifications ==
    SubSeq(db.notifications, out.notifications_before + 1, Len(db.notifications))

\* How many of the new Notification rows are addressed to u.
Notified(u) ==
    Cardinality({i \in 1..Len(NewNotifications) : NewNotifications[i].user_id = u})

\* The supervisors and presidents other than the hidden account.
Audience ==
    {u \in UserIds : /\ role[u] \in {ROLE_SUPERVISOR, ROLE_PRESIDENTE}
                     /\ u # HIDDEN_USER_ID}

\* The last request got as far as its audit write, and that write raised.
AuditFailed ==
    /\ out.fault.at \in AuditFaults
    /\ out.status \notin {"none", "denied", "invalid"}

\* The primary change of the last request is in the committed rows.
PrimaryCommitted ==
    /\ out.route = "nova_ocorrencia" =>
          /\ out.target \in DOMAIN db.occurrences
          /\ db.occurrences[out.target].user_id = out.actor
    /\ out.route = "edit_occurrence" =>
          db.occurrences[out.target].rev = out.value
    /\ out.route = "delete_occurrence" => out.target \notin DOMAIN db.occurrences
    /\ out.route = "toggle_user_status" =>
          db.is_active[out.target] = (out.value = 1)
    /\ out.route \in {"reset_password", "change_password"} =>
          db.password_hash[out.target] = out.value
    /\ out.route = "mark_notification_read" =>
          db.notifications[out.target].read

\* C14: when the audit write of a request fails, the change the request made
\* before it is committed all the same.
C14_AuditIsolation == AuditFailed => PrimaryCommitted

\* A record is created and the INSERT of its ActivityLog row fails.
C14_Witness ==
    /\ out.route = "nova_ocorrencia"
    /\ out.fault.at = "activity"
    /\ out.target \in DOMAIN db.occurrences
    /\ NewActivities = <<>>

\* C15: a failing audit write never turns the outcome shown to the user into
\* an error.
C15_AuditOutcome == AuditFailed => out.status # "error"

\* C16: when the Notification row of one recipient fails, the rows of the
\* other recipients are stored.
C16_BestEffortFanOut ==
    (/\ out.fault.at = "notification"
     /\ out.fault.user_id # out.actor
     /\ out.status = "success") =>
        \A u \in Audience \ {out.fault.user_id, out.actor} : Notified(u) = 1

\* C17: when a Notification row fails, the ActivityLog row of the action is
\* stored.
C17_AuditEntryKept ==
    (/\ out.fault.at = "notification"
     /\ out.fault.user_id # out.actor
     /\ out.status = "success") =>
        /\ Len(NewActivities) = 1
        /\ NewActivities[1].user_id = out.actor

\* C18: a login that succeeds notifies every supervisor and president other
\* than the hidden account.
C18_LoginNotifies ==
    (/\ out.route = "login"
     /\ out.status = "success"
     /\ out.fault = NoFault) =>
        \A u \in Audience \ {out.actor} : Notified(u) >= 1

\* C19: a record created by a nadador, every write going through, adds one
\* ActivityLog row of the nadador with action create_occurrence and one
\* Notification for each supervisor and president other than the hidden
\* account, and none for anybody else.
C19_CreateFanOut ==
    (/\ out.route = "nova_ocorrencia"
     /\ role[out.actor] = ROLE_NADADOR
     /\ out.status = "success"
     /\ out.fault = NoFault) =>
        /\ NewActivities =
              <<[user_id |-> out.actor, action |-> "create_occurrence"]>>
        /\ \A u \in UserIds : Notified(u) = IF u \in Audience THEN 1 ELSE 0

\* A nadador creates a record while the hidden account is a supervisor or a
\* president and another account is one too.
C19_Witness ==
    /\ out.route = "nova_ocorrencia"
    /\ role[out.actor] = ROLE_NADADOR
    /\ out.status = "success"
    /\ out.fault = NoFault
    /\ role[HIDDEN_USER_ID] # ROLE_NADADOR
    /\ Audience # {}
    /\ Len(NewNotifications) = Cardinality(Audience)

\* C20: a supervisor or president gets no Notification about its own action.
C20_NoSelfNotification ==
    (/\ out.route \in {"nova_ocorrencia", "edit_occurrence"}
     /\ out.status = "success"
     /\ role[out.actor] \in {ROLE_SUPERVISOR, ROLE_PRESIDENTE}) =>
        Notified(out.actor) = 0

\* The step serves a request of this route.
Served(route) == served' = served + 1 /\ out'.route = route

\* C23: mark_notification_read by a user other than the recipient is
\* refused and changes no row; it succeeds only for the recipient.
C23_MarkReadRecipientOnly ==
    [][Served("mark_notification_read") =>
          LET recipient == db.notifications[out'.target].user_id
          IN  /\ recipient # out'.actor => (out'.status = "denied" /\ db' = db)
              /\ out'.status = "success" => recipient = out'.actor]_vars

\* Somebody other than the recipient asked and was refused.
C23_Witness ==
    /\ out.route = "mark_notification_read"
    /\ out.status = "denied"
    /\ db.notifications[out.target].user_id # out.actor

\* C24: a notification that is read stays read, and the recipient marking it
\* again succeeds and leaves it read.
C24_ReadMonotonic ==
    [][/\ \A i \in 1..Len(db.notifications) :
             db.notifications[i].read =>
                 (i <= Len(db'.notifications) /\ db'.notifications[i].read)
       /\ (/\ Served("mark_notification_read")
           /\ db.notifications[out'.target].user_id = out'.actor
           /\ db.notifications[out'.target].read
           /\ out'.fault.at # "primary") =>
              (out'.status = "success" /\ db'.notifications[out'.target].read)]_vars

\* The recipient marks a notification it had marked before.
C24_Witness ==
    /\ out.route = "mark_notification_read"
    /\ out.status = "success"
    /\ db.notifications[out.target].read
    /\ \E i \in 1..out.activities_before :
          /\ db.activity_log[i].action = "mark_notification_read"
          /\ db.activity_log[i].user_id = out.actor

\* The routes behind @login_required.
LoginRequiredRoutes ==
    {"nova_ocorrencia", "edit_occurrence", "delete_occurrence",
     "toggle_user_status", "mark_notification_read", "change_password"}

\* C26: a request behind @login_required is served only for a user that is
\* active when the request arrives.
C26_SuspensionEffective ==
    [][(served' = served + 1 /\ out'.route \in LoginRequiredRoutes) =>
          db.is_active[out'.actor]]_vars

\* A request is served while an account is suspended.
C26_Witness ==
    /\ out.route \in LoginRequiredRoutes
    /\ out.status = "success"
    /\ \E u \in UserIds :
          /\ ~db.is_active[u]
          /\ \E i \in 1..out.activities_before :
                db.activity_log[i].action = "toggle_user_status"

\* The cases in which toggle_user_status turns the request away.
ToggleRefused(a, id, reason) ==
    \/ role[a] = ROLE_NADADOR
    \/ role[a] = ROLE_SUPERVISOR /\ role[id] # ROLE_NADADOR
    \/ id = a
    \/ db.is_active[id] /\ ~reason

\* C27: a refused toggle_user_status changes neither is_active nor the
\* activity log; an accepted one, its commit going through, flips is_active
\* of the target and of nobody else.
C27_ToggleFrame ==
    [][\A r \in BOOLEAN :
          (/\ Served("toggle_user_status")
           /\ toggle_user_status(out'.actor, out'.target, r, out'.fault)) =>
              /\ ToggleRefused(out'.actor, out'.target, r) =>
                    /\ db'.is_active = db.is_active
                    /\ db'.activity_log = db.activity_log
              /\ (~ToggleRefused(out'.actor, out'.target, r)
                    /\ out'.fault.at # "primary") =>
                    db'.is_active =
                        [db.is_active EXCEPT ![out'.target] = ~@]]_vars

\* A president or supervisor asks to suspend its own account and is refused.
C27_Witness ==
    /\ out.route = "toggle_user_status"
    /\ out.target = out.actor
    /\ role[out.actor] # ROLE_NADADOR
    /\ out.status = "denied"
    /\ db.is_active[out.actor]

\* C30: the login of a suspended account writes no login row to the
\* activity log.
C30_LoginAuditAuthenticated ==
    (out.route = "login" /\ ~db.is_active[out.actor]) => NewActivities = <<>>

\* ================================================================== links
\* log_activity as a function of its arguments: the call is drawn at the
\* start (out, status "call") and log_activity_call applies it with
\* notify_supervisors=True to the new database.
ActionKinds ==
    NotifiedActions \cup {"logout", "create_user", "edit_user", "password_reset"}

Call(user_id, action, occurrence_id, target_user_id) ==
    [route |-> action, actor |-> user_id, target |-> occurrence_id,
     value |-> target_user_id, fault |-> NoFault, status |-> "call",
     activities_before |-> 0, notifications_before |-> 0]

log_activity_call ==
    /\ out.status = "call"
    /\ db' = log_activity(begin(db), out.actor, out.route,
                          Details(out.target, out.value), TRUE, NoFault).db
    /\ out' = [out EXCEPT !.status = "returned"]
    /\ UNCHANGED <<served, pending, role, tokVars, recVars, scopeVars>>

InitLink ==
    /\ InitTokenIdle
    /\ InitRecoverIdle
    /\ InitScopeIdle
    /\ role \in AuditRoles
    /\ db = EmptyDb
    /\ out \in {Call(u, a, o, t) : u \in UserIds, a \in ActionKinds,
                                  o \in OccIds \cup {None}, t \in UserIds \cup {None}}
    /\ served = 0
    /\ pending = NoPending

NextLinkCall == log_activity_call

SpecLink == InitLink /\ [][NextLinkCall]_vars

\* ------------------------------------------------------- claims, SpecLink
\* The link the per-action rule gives the call in out.
RuleLink ==
    IF out.route \in {"create_occurrence", "edit_occurrence"} /\ out.target # None
    THEN Link("view_occurrence", out.target)
    ELSE IF out.route = "delete_occurrence" THEN Link("ocorrencias", None)
    ELSE IF out.route = "toggle_user_status" /\ out.value # None
    THEN Link("view_user", out.value)
    ELSE Link("activities", None)

\* C21: every notification log_activity creates carries the link of the
\* per-action rule: the record's view for a create or an edit, the listing
\* for a delete, the actor's profile for a suspension or reactivation, the
\* activity feed otherwise.
C21_LinkRule ==
    out.status = "returned" =>
        \A i \in 1..Len(db.notifications) : db.notifications[i].link = RuleLink

\* A delete that notified somebody, and so did a suspension.
C21_Witness ==
    /\ out.status = "returned"
    /\ out.route \in {"delete_occurrence", "toggle_user_status"}
    /\ out.value # None
    /\ Len(db.notifications) >= 1

\* ================================================================== races
\* edit_occurrence in its two writes, with the requests of other users
\* served between them: the commit of the edit (line 712), then the call of
\* log_activity (line 723).
edit_occurrence_commit(actor, id) ==
    /\ Open
    /\ pending.pc = "idle"
    /\ login_required(actor)
    /\ id \in DOMAIN db.occurrences
    /\ ~occurrence_denied(db, actor, id)
    /\ db' = [db EXCEPT !.occurrences[id].rev = 1 - @]
    /\ pending' = [pc |-> "committed", route |-> "edit_occurrence",
                   actor |-> actor, target |-> id,
                   value |-> 1 - db.occurrences[id].rev]
    /\ UNCHANGED <<out, served, role, tokVars, recVars, scopeVars>>

edit_occurrence_log(fault) ==
    /\ pending.pc = "committed"
    /\ fault.at # "primary"
    /\ fault.at = "notification" =>
          \E i \in 1..Len(supervisors) : supervisors[i] = fault.user_id
    /\ db' = log_activity(begin(db), pending.actor, "edit_occurrence",
                          Details(pending.target, None), TRUE, fault).db
    /\ out' = [route |-> "edit_occurrence", actor |-> pending.actor,
               target |-> pending.target, value |-> pending.value,
               fault |-> fault, status |-> "success",
               activities_before |-> Len(db.activity_log),
               notifications_before |-> Len(db.notifications)]
    /\ served' = served + 1
    /\ pending' = NoPending
    /\ UNCHANGED <<role, tokVars, recVars, scopeVars>>

InitRace ==
    /\ InitTokenIdle
    /\ InitRecoverIdle
    /\ InitScopeIdle
    /\ role \in AuditRoles
    /\ db = SeedCreated
    /\ out = NoOut
    /\ served = 0
    /\ pending = NoPending

NextRace ==
    \/ \E a \in UserIds, id \in OccIds : edit_occurrence_commit(a, id)
    \/ \E f \in Faults : edit_occurrence_log(f)
    \/ \E a \in UserIds, id \in OccIds, f \in PlainFaults :
          delete_occurrence_post(a, id, f)

SpecRace == InitRace /\ [][NextRace]_vars

\* ------------------------------------------------------- claims, SpecRace
\* C22: when the record an edit is about is gone by the time log_activity
\* builds the notifications, their link is the activity feed.
C22_MissingRecordLink ==
    (/\ out.route = "edit_occurrence"
     /\ out.status = "success"
     /\ out.target \notin DOMAIN db.occurrences) =>
        \A i \in 1..Len(NewNotifications) :
            NewNotifications[i].link = Link("activities", None)

\* ========================================================= administration
\* edit_user and toggle_user_status, each also in two steps: the check of
\* current_user as load_user read it when the request arrived, then the
\* write, with the requests of other users served between the two.

\* An edit_user that turns away swimmers only.
edit_user_denied_swimmer(actor) == role[actor] = ROLE_NADADOR

\* edit_user, line 906: 'Acesso negado' for everyone but a president.
edit_user_denied(actor) == role[actor] # ROLE_PRESIDENTE

\* edit_user from get_or_404 on (lines 910-974), r being the role column.
\* On its own row the president's form.role.data is forced to the role
\* already loaded, so that row's role is not written.
edit_user_write_run(d, r, actor, id, new_role, fault) ==
    LET role_data == IF id = actor THEN ROLE_PRESIDENTE ELSE new_role
        r1 == IF id = actor THEN r ELSE [r EXCEPT ![id] = role_data]
    IN  IF fault.at = "primary"
        THEN [db |-> rollback(begin(d)).db, role |-> r, status |-> "error"]
        ELSE [db |-> log_activity(commit(begin(d)), actor, "edit_user",
                                  Details(None, id), FALSE, fault).db,
              role |-> r1, status |-> "success"]

\* toggle_user_status up to its try block: the three refusals.
toggle_user_status_denied(actor, id) ==
    \/ role[actor] = ROLE_NADADOR
    \/ role[actor] = ROLE_SUPERVISOR /\ role[id] # ROLE_NADADOR
    \/ id = actor

\* toggle_user_status from user.is_active = new_status on (lines 1037-1058).
toggle_user_status_write_run(d, actor, id, new_status, fault) ==
    LET s1 == [begin(d) EXCEPT !.work.is_active[id] = new_status]
    IN  IF fault.at = "primary" THEN Done(rollback(s1), "error")
        ELSE Done(log_activity(commit(s1), actor, "toggle_user_status",
                               Details(None, id), FALSE, fault), "success")

\* What every request of this part leaves behind.
Answer(route, actor, target, value, fault, status, d) ==
    /\ served' = served + 1
    /\ db' = d
    /\ out' = [route |-> route, actor |-> actor, target |-> target,
               value |-> value, fault |-> fault, status |-> status,
               activities_before |-> Len(db.activity_log),
               notifications_before |-> Len(db.notifications)]
    /\ UNCHANGED <<tokVars, recVars, scopeVars>>

\* edit_user, POST with a valid form, served in one piece.  value is the
\* role the target had.
edit_user(actor, id, new_role, fault) ==
    /\ Open
    /\ login_required(actor)
    /\ edit_user_denied(actor) => fault = NoFault
    /\ LET result == edit_user_write_run(db, role, actor, id, new_role, fault)
       IN  IF edit_user_denied(actor)
           THEN /\ Answer("edit_user", actor, id, RoleOrder(role[id]), fault,
                          "denied", db)
                /\ UNCHANGED role
           ELSE /\ Answer("edit_user", actor, id, RoleOrder(role[id]), fault,
                          result.status, result.db)
                /\ role' = result.role
    /\ UNCHANGED pending

\* edit_user up to line 908.
edit_user_authorize(actor, id) ==
    /\ Open
    /\ pending.pc = "idle"
    /\ login_required(actor)
    /\ ~edit_user_denied(actor)
    /\ pending' = [pc |-> "authorized", route |-> "edit_user", actor |-> actor,
                   target |-> id, value |-> None]
    /\ UNCHANGED <<db, out, served, role, tokVars, recVars, scopeVars>>

\* edit_user from line 910 on.
edit_user_write(new_role, fault) ==
    /\ pending.pc = "authorized"
    /\ pending.route = "edit_user"
    /\ LET result == edit_user_write_run(db, role, pending.actor,
                                         pending.target, new_role, fault)
       IN  /\ Answer("edit_user", pending.actor, pending.target,
                     RoleOrder(role[pending.target]), fault,
                     result.status, result.db)
           /\ role' = result.role
    /\ pending' = NoPending

\* toggle_user_status up to line 1035: the refusals, and new_status as
\* computed from the target's row.
toggle_user_status_authorize(actor, id, reason) ==
    /\ Open
    /\ pending.pc = "idle"
    /\ login_required(actor)
    /\ ~toggle_user_status_denied(actor, id)
    /\ ~db.is_active[id] \/ reason
    /\ pending' = [pc |-> "authorized", route |-> "toggle_user_status",
                   actor |-> actor, target |-> id,
                   value |-> IF db.is_active[id] THEN 0 ELSE 1]
    /\ UNCHANGED <<db, out, served, role, tokVars, recVars, scopeVars>>

\* toggle_user_status from line 1037 on.
toggle_user_status_write(fault) ==
    /\ pending.pc = "authorized"
    /\ pending.route = "toggle_user_status"
    /\ LET result == toggle_user_status_write_run(db, pending.actor,
                         pending.target, pending.value = 1, fault)
       IN  Answer("toggle_user_status", pending.actor, pending.target,
                  pending.value, fault, result.status, result.db)
    /\ pending' = NoPending
    /\ UNCHANGED role

\* The role columns with a president among them.
AdminRoles ==
    {f \in AuditRoles : \E u \in UserIds : f[u] = ROLE_PRESIDENTE}

InitAdmin ==
    /\ InitTokenIdle
    /\ InitRecoverIdle
    /\ InitScopeIdle
    /\ role \in AdminRoles
    /\ db = EmptyDb
    /\ out = NoOut
    /\ served = 0
    /\ pending = NoPending

\* The failures taken here: none, or the commit of the change.
AdminFaults == {f \in PlainFaults : f.at # "activity"}

NextAdmin ==
    \/ \E a \in UserIds, id \in UserIds, r \in Roles, f \in AdminFaults :
          edit_user(a, id, r, f)
    \/ \E a \in UserIds, id \in UserIds : edit_user_authorize(a, id)
    \/ \E r \in Roles, f \in AdminFaults : edit_user_write(r, f)
    \/ \E a \in UserIds, id \in UserIds, r \in BOOLEAN, f \in AdminFaults :
          toggle_user_status(a, id, r, f)
    \/ \E a \in UserIds, id \in UserIds, r \in BOOLEAN :
          toggle_user_status_authorize(a, id, r)
    \/ \E f \in AdminFaults : toggle_user_status_write(f)

SpecAdmin == InitAdmin /\ [][NextAdmin]_vars

C29_ActivePresident ==
    \E u \in UserIds : role[u] = ROLE_PRESIDENTE /\ db.is_active[u]

=============================================================================
